---- MODULE Spec2Model ----
(***************************************************************************)
(* Model of efficientnet_seg/inference/segmentation.py: the Stage2         *)
(* orchestrator (selection, loading, prediction, post-processing, merge,   *)
(* write), run_seg_prediction, TTA_Segmentation_All and                    *)
(* edit_classification_df.                                                 *)
(*                                                                         *)
(* Representation.                                                         *)
(*  - A Python string is the sequence of its character codes, so that      *)
(*    sorted() and pathlib's stem are computed on the characters.          *)
(*  - A numpy array is [shape, flat]: its shape and its elements in C      *)
(*    order.  squeeze() and iteration over axis 0 act on the shape.        *)
(*  - A probability is an integer number of 1/One units; One is chosen so  *)
(*    that every mean the code takes (2 TTA variants, up to MaxModels      *)
(*    models) is exact.                                                    *)
(*  - A table field is Num(n) (the numbers 1 and -1) or Str(tokens) (a     *)
(*    string: the run-length numbers, <<-1>> for "-1", <<>> for "").       *)
(***************************************************************************)
EXTENDS Integers, Sequences, FiniteSets, TLC

----------------------------------------------------------------------------
(* Bounds of the model.                                                    *)

MaxRows == 3
MaxFiles == 3
MaxImg == 2
MaxModels == 2
MaxN == 2
MaxHW == 2
MaxChan == 2

(* mask2rle is called with the literals 1024, 1024.                        *)
RleSize == 1024

----------------------------------------------------------------------------
(* Python strings, sorted(), pathlib.Path(...).stem                        *)

RECURSIVE StrLess(_, _)
StrLess(s, t) ==
    IF s = <<>> THEN t # <<>>
    ELSE IF t = <<>> THEN FALSE
    ELSE IF Head(s) # Head(t) THEN Head(s) < Head(t)
    ELSE StrLess(Tail(s), Tail(t))

RECURSIVE InsertSorted(_, _)
InsertSorted(x, s) ==
    IF s = <<>> THEN <<x>>
    ELSE IF StrLess(x, Head(s)) THEN <<x>> \o s
    ELSE <<Head(s)>> \o InsertSorted(x, Tail(s))

RECURSIVE SortedList(_)
SortedList(s) ==
    IF s = <<>> THEN <<>> ELSE InsertSorted(Head(s), SortedList(Tail(s)))

(* Position of the last occurrence of character c in s, 0 when absent.     *)
LastIndexOf(c, s) ==
    LET hits == {i \in 1..Len(s) : s[i] = c}
    IN IF hits = {} THEN 0 ELSE CHOOSE i \in hits : \A j \in hits : j <= i

(* The pieces of s between the occurrences of character c.                 *)
RECURSIVE SplitOn(_, _)
SplitOn(c, s) ==
    LET hits == {i \in 1..Len(s) : s[i] = c}
    IN IF hits = {} THEN <<s>>
       ELSE LET i == CHOOSE h \in hits : \A j \in hits : h <= j
            IN <<SubSeq(s, 1, i - 1)>> \o SplitOn(c, SubSeq(s, i + 1, Len(s)))

(* The components of Path(fpath) below its root: pathlib splits on "/"     *)
(* (character 47) and drops the empty components (doubled and trailing     *)
(* slashes) and the "." components; ".." is kept.                           *)
PathParts(fpath) ==
    SelectSeq(SplitOn(47, fpath), LAMBDA part : part # <<>> /\ part # <<46>>)

(* Path(fpath).name: the last component of the normalised path, the empty  *)
(* string when there is none.                                              *)
PathName(fpath) ==
    LET parts == PathParts(fpath)
    IN IF parts = <<>> THEN <<>> ELSE parts[Len(parts)]

(* Path(fpath).stem: the name without its last suffix; a "." (46) that is  *)
(* the first or the last character of the name starts no suffix.           *)
PathStem(fpath) ==
    LET name == PathName(fpath)
        dot == LastIndexOf(46, name)
    IN IF dot > 1 /\ dot < Len(name) THEN SubSeq(name, 1, dot - 1) ELSE name

----------------------------------------------------------------------------
(* numpy arrays                                                            *)

RECURSIVE Prod(_)
Prod(shape) == IF shape = <<>> THEN 1 ELSE Head(shape) * Prod(Tail(shape))

Arr(shape, flat) == [shape |-> shape, flat |-> flat]

RECURSIVE Concat(_)
Concat(seqs) == IF seqs = <<>> THEN <<>> ELSE Head(seqs) \o Concat(Tail(seqs))

(* np.asarray(list of equally shaped arrays); np.asarray([]) has shape     *)
(* (0,).                                                                   *)
AsArray(items) ==
    IF items = <<>> THEN Arr(<<0>>, <<>>)
    ELSE Arr(<<Len(items)>> \o items[1].shape,
             Concat([k \in 1..Len(items) |-> items[k].flat]))

(* Iteration over an array: its sub-arrays along axis 0 (rank >= 1).       *)
Items(a) ==
    LET sub == Tail(a.shape)
        sz == Prod(sub)
    IN [k \in 1..a.shape[1] |->
          Arr(sub, [e \in 1..sz |-> a.flat[(k - 1) * sz + e]])]

(* Mutant of the mirror: np.flipud, which reverses axis 0.                 *)
Flipud(x) ==
    LET h == x.shape[1]
        inner == Prod(Tail(x.shape))
        src(e) == (h - 1 - ((e - 1) \div inner)) * inner + ((e - 1) % inner) + 1
    IN Arr(x.shape, [e \in 1..Len(x.flat) |-> x.flat[src(e)]])

(* np.fliplr(x) for x of rank >= 2: reverses axis 1.                       *)
Fliplr(x) ==
    LET w == x.shape[2]
        inner == Prod(SubSeq(x.shape, 3, Len(x.shape)))
        src(e) == LET i == (e - 1) \div (w * inner)
                      j == ((e - 1) \div inner) % w
                      r == (e - 1) % inner
                  IN (i * w + (w - 1 - j)) * inner + r + 1
    IN Arr(x.shape, [e \in 1..Len(x.flat) |-> x.flat[src(e)]])

(* np.asarray([np.fliplr(x) for x in arr])                                 *)
FlipEach(a) ==
    LET its == Items(a)
    IN AsArray([k \in 1..Len(its) |-> Fliplr(its[k])])

RECURSIVE SumAt(_, _)
SumAt(arrs, e) ==
    IF arrs = <<>> THEN 0 ELSE Head(arrs).flat[e] + SumAt(Tail(arrs), e)

(* np.mean(a, axis=0) for a of rank >= 1 with a.shape[0] >= 1              *)
MeanAxis0(a) ==
    LET its == Items(a)
        sub == Tail(a.shape)
    IN Arr(sub, [e \in 1..Prod(sub) |-> SumAt(its, e) \div Len(its)])

(* ndarray.squeeze(): every axis of size 1 is removed.                     *)
Squeeze(a) == Arr(SelectSeq(a.shape, LAMBDA d : d # 1), a.flat)

----------------------------------------------------------------------------
(* The models (keras Model.predict), as opaque deterministic predictors    *)

RECURSIVE Fact(_)
Fact(n) == IF n <= 1 THEN 1 ELSE n * Fact(n - 1)

(* Probability 1.0, in units that keep the TTA mean (of 2) and the         *)
(* ensemble mean (of up to MaxModels) exact.                               *)
One == 2 * Fact(MaxModels)

ModelKinds == {"copy", "zeros", "shift"}

(* Element (n, i, j, c), 0-based, of a batch of shape (N, H, W, C).        *)
At4(x, n, i, j, c) ==
    x.flat[((n * x.shape[2] + i) * x.shape[3] + j) * x.shape[4] + c + 1]

(* The sigmoid output of model m for pixel (i, j) of image n.  "copy"      *)
(* answers the pixel's first channel, "shift" the first channel of the     *)
(* pixel to the left (0 in column 0), so it is not mirror-symmetric.       *)
ModelOut(m, x, n, i, j) ==
    CASE m = "copy" -> One * At4(x, n, i, j, 0)
      [] m = "zeros" -> 0
      [] m = "shift" -> IF j = 0 THEN 0 ELSE One * At4(x, n, i, j - 1, 0)

(* model.predict on a batch (N, H, W, C), N >= 1: shape (N, H, W, 1).      *)
ModelPredict(m, x) ==
    LET H == x.shape[2]
        W == x.shape[3]
    IN Arr(<<x.shape[1], H, W, 1>>,
           [e \in 1..(x.shape[1] * H * W) |->
              ModelOut(m, x, (e - 1) \div (H * W), ((e - 1) \div W) % H,
                       (e - 1) % W)])

(* Results of the calls that may raise: err is "none" or the exception,    *)
(* calls counts the model.predict invocations made.                        *)
Ok(a, calls) == [err |-> "none", arr |-> a, calls |-> calls]
Raise(e, calls) == [err |-> e, arr |-> Arr(<<0>>, <<>>), calls |-> calls]

(* One model.predict call.  What a model does with an empty batch is the   *)
(* framework's business: onEmpty is "raise" or "empty" (an empty result).  *)
KerasPredict(m, x, onEmpty) ==
    IF x.shape[1] = 0
    THEN IF onEmpty = "raise" THEN Raise("PredictError", 1)
         ELSE Ok(Arr(<<0>>, <<>>), 1)
    ELSE Ok(ModelPredict(m, x), 1)

----------------------------------------------------------------------------
(* TTA_Segmentation_All and run_seg_prediction                             *)

TTA_Segmentation_All(model, test_arrays, onEmpty) ==
    LET p1 == KerasPredict(model, test_arrays, onEmpty)
        x_flip == FlipEach(test_arrays)
        p2 == KerasPredict(model, x_flip, onEmpty)
        preds_test_tta == FlipEach(p2.arr)
    IN IF p1.err # "none" THEN p1
       ELSE IF p2.err # "none" THEN Raise(p2.err, 2)
       ELSE Ok(MeanAxis0(AsArray(<<p1.arr, preds_test_tta>>)), 2)

(* [f(model_) for model_ in seg_model]: the arrays, or the first error.    *)
RECURSIVE TTAEach(_, _, _)
TTAEach(models, x, onEmpty) ==
    IF models = <<>> THEN [err |-> "none", arrs |-> <<>>, calls |-> 0]
    ELSE LET r == TTA_Segmentation_All(Head(models), x, onEmpty)
             rest == TTAEach(Tail(models), x, onEmpty)
         IN IF r.err # "none"
            THEN [err |-> r.err, arrs |-> <<>>, calls |-> r.calls]
            ELSE [err |-> rest.err, arrs |-> <<r.arr>> \o rest.arrs,
                  calls |-> r.calls + rest.calls]

RECURSIVE PredictEach(_, _, _)
PredictEach(models, x, onEmpty) ==
    IF models = <<>> THEN [err |-> "none", arrs |-> <<>>, calls |-> 0]
    ELSE LET r == KerasPredict(Head(models), x, onEmpty)
             rest == PredictEach(Tail(models), x, onEmpty)
         IN IF r.err # "none"
            THEN [err |-> r.err, arrs |-> <<>>, calls |-> r.calls]
            ELSE [err |-> rest.err, arrs |-> <<r.arr>> \o rest.arrs,
                  calls |-> r.calls + rest.calls]

(* Mutant of the ensemble mean: the squeeze is left out.                   *)
EnsembleMeanUnsqueezed(each) ==
    IF each.err # "none" THEN Raise(each.err, each.calls)
    ELSE IF each.arrs = <<>> THEN Raise("ValueError", each.calls)
    ELSE Ok(MeanAxis0(AsArray(each.arrs)), each.calls)

(* np.mean(np.stack(arrs), axis=0).squeeze(); np.stack([]) raises.         *)
EnsembleMean(each) ==
    IF each.err # "none" THEN Raise(each.err, each.calls)
    ELSE IF each.arrs = <<>> THEN Raise("ValueError", each.calls)
    ELSE Ok(Squeeze(MeanAxis0(AsArray(each.arrs))), each.calls)

(* ndarray.squeeze() of a single model's result.                           *)
SqueezeResult(r) == IF r.err # "none" THEN r ELSE Ok(Squeeze(r.arr), r.calls)

(* seg_model is [isList, models]: a single model has isList = FALSE and    *)
(* one entry.                                                              *)
run_seg_prediction(x_test_, seg_model_, tta_, onEmpty) ==
    IF tta_
    THEN IF seg_model_.isList
         THEN EnsembleMean(TTAEach(seg_model_.models, x_test_, onEmpty))
         ELSE SqueezeResult(
                TTA_Segmentation_All(seg_model_.models[1], x_test_, onEmpty))
    ELSE IF seg_model_.isList
         THEN EnsembleMean(PredictEach(seg_model_.models, x_test_, onEmpty))
         ELSE SqueezeResult(KerasPredict(seg_model_.models[1], x_test_, onEmpty))

----------------------------------------------------------------------------
(* Collaborators outside segmentation.py: load_input, preprocess_input,    *)
(* post_process_all, mask2rle                                              *)

(* Identifiers "a", "b", "c", "d" and candidate files "d/a.png", "d/b.png",     *)
(* "d/c.png", "e/a.png" (a second file with stem "a", in a directory that  *)
(* sorts after "d/").  No candidate file has the stem "d".                 *)
IdA == <<97>>
IdB == <<98>>
IdC == <<99>>
IdD == <<100>>
IdPool == {IdA, IdB, IdC, IdD}

PathDA == <<100, 47, 97, 46, 112, 110, 103>>
PathDB == <<100, 47, 98, 46, 112, 110, 103>>
PathDC == <<100, 47, 99, 46, 112, 110, 103>>
PathEA == <<101, 47, 97, 46, 112, 110, 103>>
PathPool == {PathDA, PathDB, PathDC, PathEA}

(* The picture stored in each file, as a function of the pixel: "d/a.png"  *)
(* is all foreground, "d/b.png" its left column, "e/a.png" its diagonal,   *)
(* "d/c.png" is blank.  Channel 0 carries the picture, the others are 0.   *)
DiskPixel(fpath, i, j, c) ==
    IF c # 0 THEN 0
    ELSE CASE fpath = PathDA -> 1
           [] fpath = PathDB -> IF j = 0 THEN 1 ELSE 0
           [] fpath = PathEA -> IF i = j THEN 1 ELSE 0
           [] OTHER -> 0

(* The picture of a file decoded to h x w pixels of chans channels.        *)
Picture(fpath, h, w, chans) ==
    Arr(<<h, w, chans>>,
        [e \in 1..(h * w * chans) |->
           DiskPixel(fpath, (e - 1) \div (w * chans),
                     ((e - 1) \div chans) % w, (e - 1) % chans)])

(* load_input(fpath, img_size, channels): the decoded, resized image, of   *)
(* shape (img_size, img_size, channels).                                   *)
load_input(fpath, size, chans) == Picture(fpath, size, size, chans)

(* preprocess_input(x, model_name=None): a numeric type cast.              *)
preprocess_input(x) == x

(* An item handed to the post-processor or the codec, read as a grid:      *)
(* a rank-2 item is rows x columns, a rank-1 item one row, a scalar one    *)
(* pixel.                                                                  *)
GridRows(shape) == IF Len(shape) >= 2 THEN shape[1] ELSE 1
GridCols(shape) ==
    IF Len(shape) >= 2 THEN Prod(Tail(shape))
    ELSE IF Len(shape) = 1 THEN shape[1] ELSE 1

(* Pixels e and f (positions in C order) of a grid with cols columns touch *)
(* (8-connectivity).                                                       *)
Adjacent(e, f, cols) ==
    LET re == (e - 1) \div cols
        ce == (e - 1) % cols
        rf == (f - 1) \div cols
        cf == (f - 1) % cols
    IN /\ re - rf \in {-1, 0, 1}
       /\ ce - cf \in {-1, 0, 1}

RECURSIVE Component(_, _, _)
Component(seen, fg, cols) ==
    LET more == seen \cup {f \in fg : \E e \in seen : Adjacent(e, f, cols)}
    IN IF more = seen THEN seen ELSE Component(more, fg, cols)

(* post_process_single: binarize strictly above the threshold, then zero   *)
(* every connected component smaller than min_size.                        *)
post_process_single(item, threshold, min_size) ==
    LET cols == GridCols(item.shape)
        fg == {e \in 1..Len(item.flat) : item.flat[e] > threshold}
    IN Arr(item.shape,
           [e \in 1..Len(item.flat) |->
              IF e \in fg /\ Cardinality(Component({e}, fg, cols)) >= min_size
              THEN 1 ELSE 0])

(* post_process_all: every item of the batch, the shape kept.              *)
post_process_all(preds, threshold, min_size) ==
    IF preds.shape = <<>> THEN post_process_single(preds, threshold, min_size)
    ELSE LET its == Items(preds)
         IN Arr(preds.shape,
                Concat([k \in 1..Len(its) |->
                          post_process_single(its[k], threshold, min_size).flat]))

(* The pixels of a grid in column-major scan order.                        *)
ScanBits(item) ==
    LET rows == GridRows(item.shape)
        cols == GridCols(item.shape)
    IN [s \in 1..Len(item.flat) |->
          item.flat[((s - 1) % rows) * cols + ((s - 1) \div rows) + 1]]

(* Length of the foreground run of bits that starts at pos.                *)
RunLength(bits, pos) ==
    LET stops == {e \in pos..(Len(bits) + 1) : e = Len(bits) + 1 \/ bits[e] = 0}
    IN (CHOOSE e \in stops : \A g \in stops : e <= g) - pos

RECURSIVE Runs(_, _)
Runs(bits, pos) ==
    IF pos > Len(bits) THEN <<>>
    ELSE IF bits[pos] = 0 THEN Runs(bits, pos + 1)
    ELSE <<pos - 1, RunLength(bits, pos)>>
           \o Runs(bits, pos + RunLength(bits, pos))

(* mask2rle(mask, width, height): (start, length) pairs of the foreground  *)
(* runs in column-major order, starts counted from 0.  emptyAs is what the *)
(* codec answers for an all-background mask: <<-1>> ("-1") or <<>> ("").   *)
(* This is the answer of a codec that does not raise: it encodes the mask   *)
(* it is given, whatever width and height it is told.                      *)
mask2rle(item, width, height, emptyAs) ==
    LET runs == Runs(ScanBits(item), 1)
    IN IF runs = <<>> THEN emptyAs ELSE runs

----------------------------------------------------------------------------
(* The classification table (a DataFrame with columns ImageId and          *)
(* EncodedPixels) and edit_classification_df                               *)

Num(n) == [kind |-> "int", val |-> <<n>>]
Str(tokens) == [kind |-> "str", val |-> tokens]

Pending == Num(1)
Negative == Num(-1)
Blank == Str(<<>>)
NoMask == Str(<<-1>>)
PriorRle == Str(<<0, 1>>)
FieldPool == {Pending, Negative, Blank, PriorRle}

Row(id, field) == [ImageId |-> id, EncodedPixels |-> field]

(* Mutants of the write by identifier: a chained assignment that writes    *)
(* into a copy, and an assignment to the whole column.                     *)
SetWhereIdChained(df, id, field) == df

SetWhereIdWholeColumn(df, id, field) ==
    [r \in 1..Len(df) |-> Row(df[r].ImageId, field)]

(* df.loc[df[column] == value, "EncodedPixels"] = field                    *)
SetWhereId(df, id, field) ==
    [r \in 1..Len(df) |->
       IF df[r].ImageId = id THEN Row(df[r].ImageId, field) ELSE df[r]]

(* Mutant of the write by field: nothing is rewritten.                     *)
SetWhereFieldSkipped(df, old, field) == df

SetWhereField(df, old, field) ==
    [r \in 1..Len(df) |->
       IF df[r].EncodedPixels = old THEN Row(df[r].ImageId, field) ELSE df[r]]

(* for id_, rle in zip(p_ids, rles): df.loc[df["ImageId"] == id_, ...] = rle *)
RECURSIVE InjectRles(_, _, _)
InjectRles(df, p_ids, rles) ==
    IF p_ids = <<>> \/ rles = <<>> THEN df
    ELSE InjectRles(SetWhereId(df, Head(p_ids), Str(Head(rles))),
                    Tail(p_ids), Tail(rles))

(* Whether mask2rle(pred, 1024, 1024) is handed a mask of another shape    *)
(* than the one it is told: the codec may then raise (codecRaises) or      *)
(* encode the mask it was given.                                           *)
MisdeclaredMask(preds) ==
    \E k \in 1..preds.shape[1] : Tail(preds.shape) # <<RleSize, RleSize>>

(* Line 131: the calls mask2rle(pred, 1024, 1024), one per item of         *)
(* preds_seg, each with the mask it is handed and the width and height it  *)
(* is told.                                                                *)
CodecCalls(preds) ==
    [k \in 1..Len(Items(preds)) |->
       [mask |-> Items(preds)[k], width |-> RleSize, height |-> RleSize]]

(* edit_classification_df(df, preds_seg, p_ids): [err, df].  Iterating a   *)
(* 0-d array raises TypeError; every rle is computed before any is         *)
(* written.                                                                *)
edit_classification_df(df, preds, p_ids, emptyAs, codecRaises) ==
    IF preds.shape = <<>> THEN [err |-> "TypeError", df |-> df]
    ELSE IF codecRaises /\ MisdeclaredMask(preds)
    THEN [err |-> "IndexError", df |-> df]
    ELSE LET its == Items(preds)
             calls == CodecCalls(preds)
             rles == [k \in 1..Len(its) |->
                        mask2rle(calls[k].mask, calls[k].width, calls[k].height,
                                 emptyAs)]
         IN [err |-> "none",
             df |-> SetWhereField(InjectRles(df, p_ids, rles), Blank, NoMask)]

(* DataFrame.to_csv(index=False): every field as text, so the number -1    *)
(* and the string "-1" are written alike.                                  *)
ToCsv(df) ==
    [r \in 1..Len(df) |->
       [ImageId |-> df[r].ImageId, EncodedPixels |-> df[r].EncodedPixels.val]]

----------------------------------------------------------------------------
(* State                                                                   *)

VARIABLES
    pc,             \* where the run stands
    df_in,          \* the classification table as handed to Stage2
    sub_df,         \* the table Stage2 works on (edited in place)
    test_fpaths,    \* the candidate file paths
    seg_ids,        \* line 43
    x_test_fpaths,  \* line 44
    x_test,         \* the image batch
    loaded,         \* number of load_input calls made
    img_size, channels, seg_model, tta, min_roi_size,
    on_empty,       \* what the models do with an empty batch
    empty_as,       \* what mask2rle answers for an all-background mask
    preds_seg,      \* line 50, then line 58
    predict_calls,  \* number of model.predict calls made
    npy_saved,      \* predicted_probability_masks.npy was written
    csv,            \* the successive contents written to submission_final.csv
    err             \* "none" or the exception that ended the run

vars == <<pc, df_in, sub_df, test_fpaths, seg_ids, x_test_fpaths, x_test,
          loaded, img_size, channels, seg_model, tta, min_roi_size, on_empty,
          empty_as, preds_seg, predict_calls, npy_saved, csv, err>>

Single(m) == [isList |-> FALSE, models |-> <<m>>]
List(ms) == [isList |-> TRUE, models |-> ms]

(* A single model, or a list or tuple of 0..MaxModels models.              *)
SegModels ==
    {Single(m) : m \in ModelKinds}
      \cup UNION {{List(ms) : ms \in [1..n -> ModelKinds]} : n \in 0..MaxModels}

(* threshold=0.5                                                           *)
Threshold == One \div 2

(* min_roi_size: 1 keeps every component, the default 3500 none of the     *)
(* model's small images.                                                   *)
MinRoiSizes == {1, 3500}

EmptyBatch == Arr(<<0>>, <<>>)
NoModel == List(<<>>)

(* The set S of positions, in increasing order.                            *)
RECURSIVE Ascending(_)
Ascending(S) ==
    IF S = {} THEN <<>>
    ELSE LET m == CHOOSE x \in S : \A y \in S : x <= y
         IN <<m>> \o Ascending(S \ {m})

SubLists(order, maxLen) ==
    {[k \in 1..Cardinality(S) |-> order[Ascending(S)[k]]] :
       S \in {T \in SUBSET (1..Len(order)) : Cardinality(T) <= maxLen}}

(* Tables with unique identifiers, of at most MaxRows rows: the rows of    *)
(* "b", "a", "d", "c" in that (unsorted) order, any of them left out, with *)
(* any fields.                                                             *)
Tables ==
    UNION {{[k \in 1..Len(ids) |-> Row(ids[k], f[k])] :
              f \in [1..Len(ids) -> FieldPool]} :
           ids \in SubLists(<<IdB, IdA, IdD, IdC>>, MaxRows)}

(* Lists of at most MaxFiles distinct candidate files, in an order that is *)
(* not the sorted one.                                                     *)
FileLists == SubLists(<<PathEA, PathDC, PathDB, PathDA>>, MaxFiles)

(* The models Stage2 is run with: a single model, a one-model list, an     *)
(* ensemble whose mean is 0.5 on the foreground of the picture.            *)
StageModels == {Single("copy"), List(<<"copy">>), List(<<"copy", "zeros">>)}

Unset ==
    /\ seg_ids = <<>> /\ x_test_fpaths = <<>> /\ x_test = EmptyBatch
    /\ loaded = 0 /\ img_size = 0 /\ channels = 0 /\ seg_model = NoModel
    /\ tta = FALSE /\ min_roi_size = 0 /\ on_empty = "raise"
    /\ empty_as = <<>> /\ preds_seg = EmptyBatch /\ predict_calls = 0
    /\ npy_saved = FALSE /\ csv = <<>> /\ err = "none"

Init ==
    /\ pc = "select"
    /\ df_in \in Tables
    /\ sub_df = df_in
    /\ test_fpaths \in FileLists
    /\ Unset

----------------------------------------------------------------------------
(* Stage2, phase by phase                                                  *)

(* sub_df.loc[sub_df["EncodedPixels"] == 1, "ImageId"].tolist()            *)
PositiveIds(df) ==
    LET rows == SelectSeq(df, LAMBDA r : r.EncodedPixels = Pending)
    IN [k \in 1..Len(rows) |-> rows[k].ImageId]

InList(x, s) == \E k \in 1..Len(s) : s[k] = x

Stems(fpaths) == [k \in 1..Len(fpaths) |-> PathStem(fpaths[k])]

SelectIds(df) == SortedList(PositiveIds(df))

SelectFiles(fpaths, ids) ==
    SortedList(SelectSeq(fpaths, LAMBDA f : InList(PathStem(f), ids)))

(* Mutant of the selection: the assertion is left out.                     *)
SelectUnchecked ==
    /\ pc = "select"
    /\ seg_ids' = SelectIds(sub_df)
    /\ x_test_fpaths' = SelectFiles(test_fpaths, seg_ids')
    /\ pc' = "load"
    /\ UNCHANGED <<df_in, sub_df, test_fpaths, x_test, loaded, img_size,
                   channels, seg_model, tta, min_roi_size, on_empty, empty_as,
                   preds_seg, predict_calls, npy_saved, csv, err>>

(* Lines 43-46: the selection and its assertion.                           *)
Select ==
    /\ pc = "select"
    /\ seg_ids' = SelectIds(sub_df)
    /\ x_test_fpaths' = SelectFiles(test_fpaths, seg_ids')
    /\ IF Stems(x_test_fpaths') = seg_ids'
       THEN pc' = "load" /\ err' = err
       ELSE pc' = "failed" /\ err' = "AssertionError"
    /\ UNCHANGED <<df_in, sub_df, test_fpaths, x_test, loaded, img_size,
                   channels, seg_model, tta, min_roi_size, on_empty, empty_as,
                   preds_seg, predict_calls, npy_saved, csv>>

LoadBatch(fpaths, size, chans) ==
    preprocess_input(
        AsArray([k \in 1..Len(fpaths) |-> load_input(fpaths[k], size, chans)]))

(* Lines 47-49: load and preprocess the selected files, in their order.    *)
Load ==
    /\ pc = "load"
    /\ \E size \in 1..MaxImg, chans \in {MaxChan} :
         /\ img_size' = size
         /\ channels' = chans
         /\ x_test' = LoadBatch(x_test_fpaths, size, chans)
    /\ loaded' = Len(x_test_fpaths)
    /\ pc' = "predict"
    /\ UNCHANGED <<df_in, sub_df, test_fpaths, seg_ids, x_test_fpaths,
                   seg_model, tta, min_roi_size, on_empty, empty_as, preds_seg,
                   predict_calls, npy_saved, csv, err>>

(* What a model may do with the batch it is given.                         *)
EmptyOutcomes(x) == IF x.shape[1] = 0 THEN {"raise", "empty"} ELSE {"raise"}

(* Line 50: run_seg_prediction.                                            *)
Predict ==
    /\ pc = "predict"
    /\ \E sm \in StageModels, t \in BOOLEAN, oe \in EmptyOutcomes(x_test) :
         LET r == run_seg_prediction(x_test, sm, t, oe)
         IN /\ seg_model' = sm
            /\ tta' = t
            /\ on_empty' = oe
            /\ predict_calls' = r.calls
            /\ preds_seg' = r.arr
            /\ err' = r.err
            /\ pc' = IF r.err = "none" THEN "save" ELSE "failed"
    /\ UNCHANGED <<df_in, sub_df, test_fpaths, seg_ids, x_test_fpaths, x_test,
                   loaded, img_size, channels, min_roi_size, empty_as,
                   npy_saved, csv>>

(* Lines 52-55: the optional copy of the probability maps.                 *)
Save ==
    /\ pc = "save"
    /\ \E save_pred_arr_p \in BOOLEAN : npy_saved' = save_pred_arr_p
    /\ pc' = "post"
    /\ UNCHANGED <<df_in, sub_df, test_fpaths, seg_ids, x_test_fpaths, x_test,
                   loaded, img_size, channels, seg_model, tta, min_roi_size,
                   on_empty, empty_as, preds_seg, predict_calls, csv, err>>

(* The post-processor is specified for a batch of 2-D maps; given anything *)
(* else it may raise or go item by item.                                   *)
PostOutcomes(preds) ==
    IF Len(preds.shape) = 3 THEN {"ok"} ELSE {"ok", "raise"}

(* Line 58: post_process_all.                                              *)
Post ==
    /\ pc = "post"
    /\ \E mr \in MinRoiSizes, out \in PostOutcomes(preds_seg) :
         /\ min_roi_size' = mr
         /\ IF out = "ok"
            THEN /\ preds_seg' = post_process_all(preds_seg, Threshold, mr)
                 /\ pc' = "merge" /\ err' = err
            ELSE /\ preds_seg' = preds_seg
                 /\ pc' = "failed" /\ err' = "PostProcessError"
    /\ UNCHANGED <<df_in, sub_df, test_fpaths, seg_ids, x_test_fpaths, x_test,
                   loaded, img_size, channels, seg_model, tta, on_empty,
                   empty_as, predict_calls, npy_saved, csv>>

(* Mutant of the merge: the table is written out before the encodings are  *)
(* computed and injected.                                                  *)
MergeAfterWrite ==
    /\ pc = "merge"
    /\ \E ea \in {<<-1>>, <<>>}, codecRaises \in BOOLEAN :
         LET r == edit_classification_df(sub_df, preds_seg, seg_ids, ea,
                                         codecRaises)
         IN /\ empty_as' = ea
            /\ sub_df' = r.df
            /\ err' = r.err
            /\ pc' = IF r.err = "none" THEN "write" ELSE "failed"
    /\ csv' = Append(csv, ToCsv(sub_df))
    /\ UNCHANGED <<df_in, test_fpaths, seg_ids, x_test_fpaths, x_test, loaded,
                   img_size, channels, seg_model, tta, min_roi_size, on_empty,
                   preds_seg, predict_calls, npy_saved>>

(* Line 60: edit_classification_df.                                        *)
Merge ==
    /\ pc = "merge"
    /\ \E ea \in {<<-1>>, <<>>}, codecRaises \in BOOLEAN :
         LET r == edit_classification_df(sub_df, preds_seg, seg_ids, ea,
                                         codecRaises)
         IN /\ empty_as' = ea
            /\ sub_df' = r.df
            /\ err' = r.err
            /\ pc' = IF r.err = "none" THEN "write" ELSE "failed"
    /\ UNCHANGED <<df_in, test_fpaths, seg_ids, x_test_fpaths, x_test, loaded,
                   img_size, channels, seg_model, tta, min_roi_size, on_empty,
                   preds_seg, predict_calls, npy_saved, csv>>

(* Line 61: sub_df.to_csv("submission_final.csv", index=False).            *)
Write ==
    /\ pc = "write"
    /\ csv' = Append(csv, ToCsv(sub_df))
    /\ pc' = "done"
    /\ UNCHANGED <<df_in, sub_df, test_fpaths, seg_ids, x_test_fpaths, x_test,
                   loaded, img_size, channels, seg_model, tta, min_roi_size,
                   on_empty, empty_as, preds_seg, predict_calls, npy_saved,
                   err>>

Next == Select \/ Load \/ Predict \/ Save \/ Post \/ Merge \/ Write

Spec == Init /\ [][Next]_vars

----------------------------------------------------------------------------
(* run_seg_prediction on its own, for any batch shape                      *)

(* Batches of 0..MaxN pictures of h x w pixels and chans channels.  An     *)
(* empty batch keeps its trailing axes.                                    *)
Batch(fpaths, h, w, chans) ==
    IF fpaths = <<>> THEN Arr(<<0, h, w, chans>>, <<>>)
    ELSE AsArray([k \in 1..Len(fpaths) |-> Picture(fpaths[k], h, w, chans)])

PredBatches ==
    {Batch(f, h, w, chans) :
       f \in UNION {[1..n -> PathPool] : n \in 0..MaxN},
       h \in 1..MaxHW, w \in 1..MaxHW, chans \in 1..MaxChan}

InitPred ==
    /\ pc = "pred_call"
    /\ x_test \in PredBatches
    /\ seg_model \in SegModels
    /\ tta \in BOOLEAN
    /\ df_in = <<>> /\ sub_df = <<>> /\ test_fpaths = <<>>
    /\ seg_ids = <<>> /\ x_test_fpaths = <<>> /\ loaded = 0 /\ img_size = 0
    /\ channels = 0 /\ min_roi_size = 0 /\ on_empty = "raise"
    /\ empty_as = <<>> /\ preds_seg = EmptyBatch /\ predict_calls = 0
    /\ npy_saved = FALSE /\ csv = <<>> /\ err = "none"

PredRun ==
    /\ pc = "pred_call"
    /\ \E oe \in EmptyOutcomes(x_test) :
         LET r == run_seg_prediction(x_test, seg_model, tta, oe)
         IN /\ on_empty' = oe
            /\ predict_calls' = r.calls
            /\ preds_seg' = r.arr
            /\ err' = r.err
            /\ pc' = IF r.err = "none" THEN "pred_done" ELSE "pred_failed"
    /\ UNCHANGED <<df_in, sub_df, test_fpaths, seg_ids, x_test_fpaths, x_test,
                   loaded, img_size, channels, seg_model, tta, min_roi_size,
                   empty_as, npy_saved, csv>>

NextPred == PredRun

SpecPred == InitPred /\ [][NextPred]_vars

----------------------------------------------------------------------------
(* What the claims speak of, stated from the inputs of the run rather than *)
(* from the arrays the code builds                                         *)

(* The batch with every image mirrored left-right, pixel by pixel.         *)
MirrorBatch(x) ==
    LET H == x.shape[2]
        W == x.shape[3]
        C == x.shape[4]
    IN Arr(x.shape,
           [e \in 1..Len(x.flat) |->
              At4(x, (e - 1) \div (H * W * C), ((e - 1) \div (W * C)) % H,
                  W - 1 - (((e - 1) \div C) % W), (e - 1) % C)])

(* The probability one model assigns to pixel (i, j) of image n.           *)
PixelProb(m, x, withTta, n, i, j) ==
    IF withTta
    THEN (ModelOut(m, x, n, i, j)
            + ModelOut(m, MirrorBatch(x), n, i, x.shape[3] - 1 - j)) \div 2
    ELSE ModelOut(m, x, n, i, j)

RECURSIVE SumProb(_, _, _, _, _, _)
SumProb(ms, x, withTta, n, i, j) ==
    IF ms = <<>> THEN 0
    ELSE PixelProb(Head(ms), x, withTta, n, i, j)
           + SumProb(Tail(ms), x, withTta, n, i, j)

(* The probability map of the k-th image of the batch (k from 1), H x W.   *)
ExpectedProbMap(k) ==
    LET H == x_test.shape[2]
        W == x_test.shape[3]
    IN Arr(<<H, W>>,
           [e \in 1..(H * W) |->
              SumProb(seg_model.models, x_test, tta, k - 1, (e - 1) \div W,
                      (e - 1) % W) \div Len(seg_model.models)])

(* The k-th post-processed binary mask and its run-length encoding.        *)
ExpectedMask(k) ==
    post_process_single(ExpectedProbMap(k), Threshold, min_roi_size)

AllBackground(mask) == \A e \in 1..Len(mask.flat) : mask.flat[e] = 0

ExpectedRle(k) ==
    Str(mask2rle(ExpectedMask(k), x_test.shape[3], x_test.shape[2], <<-1>>))

(* The field of the record of identifier id (identifiers are unique).      *)
FieldOf(df, id) ==
    LET r == CHOOSE q \in 1..Len(df) : df[q].ImageId = id
    IN df[r].EncodedPixels

Merged == pc \in {"write", "done"}

WasPending(r) == df_in[r].EncodedPixels = Pending

----------------------------------------------------------------------------
(* Claims about Stage2 (specification Spec)                                *)

(* C1: whenever Stage2 has run to completion on a table with unique        *)
(* identifiers, the merged table it wrote holds no pending sentinel 1:     *)
(* every record that was selected as positive holds the encoding of its    *)
(* own post-processed mask, and every other record the negative sentinel   *)
(* or a run-length string.                                                 *)
C1_SelectedHoldTheirMaskEncoding ==
    pc = "done" =>
      /\ Len(csv) = 1
      /\ Len(sub_df) = Len(df_in)
      /\ csv[1] = ToCsv(sub_df)
      /\ \A r \in 1..Len(sub_df) :
           /\ sub_df[r].EncodedPixels # Pending
           /\ csv[1][r].EncodedPixels # <<1>>
           /\ WasPending(r) =>
                \E k \in 1..Len(seg_ids) :
                  /\ seg_ids[k] = df_in[r].ImageId
                  /\ sub_df[r].EncodedPixels = ExpectedRle(k)
           /\ ~WasPending(r) =>
                sub_df[r].EncodedPixels \in {Negative, NoMask, PriorRle}

(* The same, for the runs that selected at least two positives.            *)
C1_HoldsForTwoOrMore ==
    Len(seg_ids) >= 2 => C1_SelectedHoldTheirMaskEncoding

(* The part of C1 the code keeps in every completed run: no record of the  *)
(* written table is still the pending sentinel 1, in the table or in the   *)
(* written text; every record that was selected as positive holds some     *)
(* non-blank string and every other record the negative sentinel or a      *)
(* run-length string.                                                      *)
C1_NoPendingInWrittenTable ==
    pc = "done" =>
      /\ Len(csv) = 1
      /\ Len(sub_df) = Len(df_in)
      /\ \A r \in 1..Len(sub_df) :
           /\ sub_df[r].EncodedPixels # Pending
           /\ csv[1][r].EncodedPixels # <<1>>
           /\ WasPending(r) =>
                /\ sub_df[r].EncodedPixels.kind = "str"
                /\ sub_df[r].EncodedPixels # Blank
           /\ ~WasPending(r) =>
                sub_df[r].EncodedPixels \in {Negative, NoMask, PriorRle}

(* A completed run that had two positives to overwrite.                    *)
C1_Witness ==
    /\ pc = "done"
    /\ Len(seg_ids) >= 2
    /\ \E r \in 1..Len(df_in) : WasPending(r)

(* C2: once the selection has run, if the stems of the resolved files (in  *)
(* sorted order) are not the sorted selected identifiers, the run has      *)
(* failed with the assertion's error, before any image was loaded, any     *)
(* prediction made or anything written.                                    *)
C2_MismatchAbortsBeforeInference ==
    (pc # "select" /\ Stems(x_test_fpaths) # seg_ids) =>
      /\ pc = "failed"
      /\ err = "AssertionError"
      /\ loaded = 0
      /\ x_test = EmptyBatch
      /\ predict_calls = 0
      /\ csv = <<>>

(* The run failed because a selected identifier has no file.               *)
C2_Witness ==
    /\ pc = "failed"
    /\ err = "AssertionError"
    /\ \E k \in 1..Len(seg_ids) : ~InList(seg_ids[k], Stems(test_fpaths))

(* C6: submission_final.csv is written at most once and only by a run that *)
(* did not fail; when it is written the merge is complete: what is written *)
(* is the merged table, in which every selected record has been            *)
(* overwritten by a string and no field is blank.                          *)
C6_NoPartialCommit ==
    /\ Len(csv) <= 1
    /\ pc = "failed" => csv = <<>>
    /\ csv # <<>> =>
         /\ pc = "done"
         /\ csv[1] = ToCsv(sub_df)
         /\ \A r \in 1..Len(sub_df) :
              /\ sub_df[r].EncodedPixels # Blank
              /\ csv[1][r].EncodedPixels # <<>>
              /\ WasPending(r) => sub_df[r].EncodedPixels.kind = "str"

(* A run that failed in the merge, after inference, with nothing written.  *)
C6_Witness ==
    /\ pc = "failed"
    /\ err \in {"IndexError", "TypeError"}
    /\ predict_calls > 0
    /\ csv = <<>>

(* C7: the table keeps its records and their identifiers, and a record     *)
(* that was not selected and whose field is -1 or a non-blank run-length   *)
(* string keeps its field, in the merged table and in the written text.    *)
C7_UnselectedRecordsUnchanged ==
    /\ Len(sub_df) = Len(df_in)
    /\ \A r \in 1..Len(df_in) :
         /\ sub_df[r].ImageId = df_in[r].ImageId
         /\ df_in[r].EncodedPixels \in {Negative, PriorRle} =>
              sub_df[r].EncodedPixels = df_in[r].EncodedPixels
    /\ pc = "done" =>
         /\ Len(csv[1]) = Len(df_in)
         /\ \A r \in 1..Len(df_in) :
              /\ csv[1][r].ImageId = df_in[r].ImageId
              /\ df_in[r].EncodedPixels \in {Negative, PriorRle} =>
                   csv[1][r].EncodedPixels = df_in[r].EncodedPixels.val

(* A completed merge of a table with a positive, a negative and a prior    *)
(* run-length record.                                                      *)
C7_Witness ==
    /\ pc = "done"
    /\ \E q, r, t \in 1..Len(df_in) :
         /\ WasPending(q)
         /\ sub_df[q].EncodedPixels # Pending
         /\ df_in[r].EncodedPixels = Negative
         /\ df_in[t].EncodedPixels = PriorRle

(* C3: in every run that reached inference the k-th image of the batch is  *)
(* the one loaded from the file whose stem is the k-th sorted selected     *)
(* identifier, and once the merge is done the record of that identifier    *)
(* holds the run-length encoding of the k-th post-processed mask.          *)
C3_IdMaskCorrespondence ==
    /\ pc \in {"predict", "save", "post", "merge", "write", "done"} =>
         /\ x_test.shape[1] = Len(seg_ids)
         /\ \A k \in 1..Len(seg_ids) :
              /\ PathStem(x_test_fpaths[k]) = seg_ids[k]
              /\ Items(x_test)[k]
                   = load_input(x_test_fpaths[k], img_size, channels)
    /\ Merged =>
         \A k \in 1..Len(seg_ids) :
           FieldOf(sub_df, seg_ids[k]) = ExpectedRle(k)

(* The same, for the runs that selected at least two positives.            *)
C3_HoldsForTwoOrMore ==
    Len(seg_ids) >= 2 => C3_IdMaskCorrespondence

(* C5: a run on a table without any pending record ends without error,     *)
(* has invoked no model prediction, and has written the input table.       *)
C5_NoPositivesIsNoOp ==
    (PositiveIds(df_in) = <<>> /\ pc \notin {"select", "load", "predict"}) =>
      /\ pc # "failed"
      /\ predict_calls = 0
      /\ pc = "done" => csv = <<ToCsv(df_in)>>

(* C8: once the merge is done, every selected identifier whose             *)
(* post-processed mask is all background holds the string "-1", whichever  *)
(* of "-1" and "" the codec answers for such a mask, and no record holds   *)
(* an empty string.                                                        *)
C8_EmptyMaskIsMinusOne ==
    Merged =>
      /\ \A k \in 1..Len(seg_ids) :
           AllBackground(ExpectedMask(k)) =>
             FieldOf(sub_df, seg_ids[k]) = NoMask
      /\ \A r \in 1..Len(sub_df) : sub_df[r].EncodedPixels # Blank
      /\ pc = "done" =>
           \A r \in 1..Len(sub_df) : csv[1][r].EncodedPixels # <<>>

(* A merge in which the codec answered "" for an all-background mask of a  *)
(* selected identifier, next to one with foreground.                       *)
C8_Witness ==
    /\ pc = "done"
    /\ empty_as = <<>>
    /\ \E k, q \in 1..Len(seg_ids) :
         /\ AllBackground(ExpectedMask(k))
         /\ ~AllBackground(ExpectedMask(q))
         /\ FieldOf(sub_df, seg_ids[k]) = NoMask

----------------------------------------------------------------------------
(* Claims about run_seg_prediction (specification SpecPred)                *)

(* C4: for a batch (N, H, W, C) with N >= 1 and models answering           *)
(* (N, H, W, 1), the result has shape exactly (N, H, W).                   *)
C4_ResultShapeIsNHW ==
    (pc = "pred_done" /\ x_test.shape[1] >= 1) =>
      preds_seg.shape = <<x_test.shape[1], x_test.shape[2], x_test.shape[3]>>

(* C9: a list of exactly one model gives the result (values, shape, or     *)
(* error) that the model alone gives, with and without TTA.                *)
C9_SingletonEnsembleIsModelAlone ==
    (pc \in {"pred_done", "pred_failed"} /\ seg_model.isList
       /\ Len(seg_model.models) = 1) =>
      LET alone == run_seg_prediction(x_test, Single(seg_model.models[1]),
                                      tta, on_empty)
      IN /\ err = alone.err
         /\ preds_seg = alone.arr

(* A one-model list was run, with TTA, on a batch of two images.           *)
C9_Witness ==
    /\ pc = "pred_done"
    /\ seg_model = List(<<"shift">>)
    /\ tta
    /\ x_test.shape[1] = 2
    /\ \E e \in 1..Len(preds_seg.flat) : preds_seg.flat[e] # 0

(* C10: with TTA, the prediction of a model for pixel (i, j) of image n is *)
(* the mean of its output on the batch at (n, i, j) and its output on the  *)
(* left-right mirrored batch at (n, i, W-1-j); the mirror acts on the      *)
(* width axis and mirroring twice gives the batch back.                    *)
C10_TtaIsMeanOfAlignedFlips ==
    (pc = "pred_done" /\ tta /\ ~seg_model.isList /\ x_test.shape[1] >= 1) =>
      LET N == x_test.shape[1]
          H == x_test.shape[2]
          W == x_test.shape[3]
          m == seg_model.models[1]
      IN /\ FlipEach(x_test) = MirrorBatch(x_test)
         /\ FlipEach(FlipEach(x_test)) = x_test
         /\ Len(preds_seg.flat) = N * H * W
         /\ \A n \in 0..(N - 1), i \in 0..(H - 1), j \in 0..(W - 1) :
              2 * preds_seg.flat[(n * H + i) * W + j + 1]
                = ModelOut(m, x_test, n, i, j)
                    + ModelOut(m, MirrorBatch(x_test), n, i, W - 1 - j)

(* TTA was run with the model that is not mirror-symmetric, on a picture   *)
(* that is not either, wider than one pixel.                               *)
C10_Witness ==
    /\ pc = "pred_done"
    /\ tta
    /\ seg_model = Single("shift")
    /\ x_test.shape[1] >= 1
    /\ x_test.shape[3] >= 2
    /\ MirrorBatch(x_test) # x_test
    /\ \E e \in 1..Len(preds_seg.flat) : preds_seg.flat[e] \notin {0, One}

(* C11: whenever the batch is empty or the model collection is empty,      *)
(* run_seg_prediction fails (any exception is taken for the EmptyInput     *)
(* error) and returns no probability masks, with and without TTA.          *)
C11_EmptyInputFails ==
    (pc \in {"pred_done", "pred_failed"}
       /\ (x_test.shape[1] = 0 \/ seg_model = List(<<>>))) =>
      /\ pc = "pred_failed"
      /\ err # "none"
      /\ preds_seg = EmptyBatch

(* The part of C11 the code does keep: an empty list or tuple of models    *)
(* ends in the exception of np.stack, before any model is asked.           *)
C11_EmptyCollectionRaises ==
    (pc \in {"pred_done", "pred_failed"} /\ seg_model = List(<<>>)) =>
      /\ pc = "pred_failed"
      /\ err = "ValueError"
      /\ predict_calls = 0

----------------------------------------------------------------------------
(* Further claims about Stage2 (specification Spec)                        *)

(* The candidate files whose stem is id.                                   *)
FilesWithStem(id) ==
    {f \in 1..Len(test_fpaths) : PathStem(test_fpaths[f]) = id}

(* Every selected positive identifier is the stem of exactly one           *)
(* candidate file.                                                         *)
EachSelectedHasOneFile ==
    \A k \in 1..Len(PositiveIds(df_in)) :
      Cardinality(FilesWithStem(PositiveIds(df_in)[k])) = 1

(* C12: whenever every selected positive identifier is the stem of exactly *)
(* one candidate file, the selection succeeds: the assertion passes, the   *)
(* stems of the sorted resolved paths are the sorted identifiers, and the  *)
(* run goes on to inference.                                               *)
C12_OneFilePerIdSelects ==
    (pc # "select" /\ EachSelectedHasOneFile) =>
      /\ ~(pc = "failed" /\ err = "AssertionError")
      /\ Stems(x_test_fpaths) = seg_ids

(* All candidate files lie in one directory and carry one extension.       *)
SameDirAndExtension ==
    \A f, g \in 1..Len(test_fpaths) :
      /\ SubSeq(test_fpaths[f], 1, LastIndexOf(47, test_fpaths[f]))
           = SubSeq(test_fpaths[g], 1, LastIndexOf(47, test_fpaths[g]))
      /\ SubSeq(test_fpaths[f],
                LastIndexOf(47, test_fpaths[f]) + Len(PathStem(test_fpaths[f])) + 1,
                Len(test_fpaths[f]))
           = SubSeq(test_fpaths[g],
                    LastIndexOf(47, test_fpaths[g]) + Len(PathStem(test_fpaths[g])) + 1,
                    Len(test_fpaths[g]))

(* The part of C12 the code does keep, for the identifiers of the model    *)
(* (none is a prefix of another): with all files in one directory and of   *)
(* one extension the selection succeeds.                                   *)
C12_HoldsInOneDirectory ==
    SameDirAndExtension => C12_OneFilePerIdSelects

(* The merge phase has run on a batch of N >= 2 masks (rank 3).            *)
MergeRanOnMasks ==
    /\ pc \in {"write", "done"} \/ (pc = "failed" /\ err = "IndexError")
    /\ Len(preds_seg.shape) = 3

(* C13: in the merge phase every mask is encoded with a height and width   *)
(* equal to the mask's own spatial dimensions, the img_size x img_size     *)
(* grid that Stage2 loaded and predicted on.                               *)
C13_EncodedWithActualSize ==
    MergeRanOnMasks =>
      \A k \in 1..Len(CodecCalls(preds_seg)) :
        /\ CodecCalls(preds_seg)[k].mask.shape = <<img_size, img_size>>
        /\ CodecCalls(preds_seg)[k].height = img_size
        /\ CodecCalls(preds_seg)[k].width = img_size

(* The part of C13 the code does keep: the masks handed to the codec have  *)
(* the img_size x img_size grid of the loaded batch.                       *)
C13_MasksKeepLoadedGrid ==
    MergeRanOnMasks =>
      \A k \in 1..Len(CodecCalls(preds_seg)) :
        CodecCalls(preds_seg)[k].mask.shape = <<img_size, img_size>>

====
